---- MODULE Spec2Model ----
(***************************************************************************)
(* hellohello-musicbot: the Slack message handler that turns a music link  *)
(* into the equivalent links on other services.  The repository holds      *)
(* eight versions of the handler; the model runs one of them per           *)
(* behaviour (variable ver) over the same state: the seen-event set, the   *)
(* lookup cache, the clock and the handler runs with what each one did.    *)
(*                                                                         *)
(* Strings are sequences of tokens.  A URL starts with a host token that   *)
(* stands for "https://<host>/":                                           *)
(*   "sp"  https://open.spotify.com/     "am"  https://music.apple.com/     *)
(*   "yt"  https://music.youtube.com/    "ex"  https://example.com/         *)
(* and goes on with the tokens "x" (a plain character), "&", "amp;" (the   *)
(* four characters a m p ;), " " (a space), "nb" (U+00A0), "%20", "|"      *)
(* and "lbl" (the display text of Slack's <url|label> markup).             *)
(***************************************************************************)
EXTENDS Integers, Sequences, FiniteSets, TLC

VARIABLES ver, allowed, now, seenEvents, cache, runs, clears, nu, nk, nout, got, pev, pout, fw

vars ==
    <<ver, allowed, now, seenEvents, cache, runs, clears, nu, nk, nout, got, pev, pout,
      fw>>

(***************************************************************************)
(* Bounds of the model.                                                    *)
(***************************************************************************)
\* handler runs (inbound events) per behaviour
MaxRuns == 2
\* the clock runs from 0 to MaxTime
MaxTime == 2
\* length of the strings normalization is applied to
MaxLen == 4
\* attachments of an event the URL search is tried on
MaxAtts == 2
\* CACHE_TTL_MS (10 * 60 * 1000 in the source) counted in clock units
CACHE_TTL_MS == 1
\* the size above which seenEvents is cleared (2000 in the source)
SEEN_LIMIT == 1

None == "none"

\* the timeout of one request of fetchOdesli in slack.js (1800 ms) and the time
\* the listener is to stay under (~2.5 s), in tenths of a second
FETCH_TIMEOUT == 18
RESPONSE_BUDGET == 25

\* no call of fetchOdesli under way
NoCall == [state |-> "idle", try |-> 0, spent |-> 0, elapsed |-> 0]

(***************************************************************************)
(* Strings.                                                                *)
(***************************************************************************)
HostToks == {"sp", "am", "yt", "ex"}
CharToks == {"x", "&", "amp;", " ", "nb", "%20"}
WhiteToks == {" ", "nb"}

RECURSIVE SeqsUpTo(_, _)
SeqsUpTo(S, n) ==
    IF n = 0 THEN {<< >>}
    ELSE LET shorter == SeqsUpTo(S, n - 1)
         IN  shorter \cup {Append(s, c) : s \in {t \in shorter : Len(t) = n - 1}, c \in S}

\* the strings normalization is tried on: an optional host token, then characters
Strings ==
    SeqsUpTo(CharToks, MaxLen)
    \cup {<<h>> \o s : h \in HostToks, s \in SeqsUpTo(CharToks, MaxLen - 1)}

\* String.prototype.replace(/&amp;/g, '&'): left to right, without rescanning
RECURSIVE ReplaceAmp(_)
ReplaceAmp(s) ==
    IF Len(s) = 0 THEN << >>
    ELSE IF Len(s) >= 2 /\ s[1] = "&" /\ s[2] = "amp;"
         THEN <<"&">> \o ReplaceAmp(SubSeq(s, 3, Len(s)))
         ELSE <<s[1]>> \o ReplaceAmp(Tail(s))

\* String.prototype.replace(/\u00A0/g, ' ')
ReplaceNbsp(s) == [i \in 1..Len(s) |-> IF s[i] = "nb" THEN " " ELSE s[i]]

RECURSIVE TrimLeft(_)
TrimLeft(s) ==
    IF Len(s) > 0 /\ s[1] \in WhiteToks THEN TrimLeft(Tail(s)) ELSE s

RECURSIVE TrimRight(_)
TrimRight(s) ==
    IF Len(s) > 0 /\ s[Len(s)] \in WhiteToks
    THEN TrimRight(SubSeq(s, 1, Len(s) - 1)) ELSE s

\* String.prototype.trim(): U+00A0 is white space to it as well
Trim(s) == TrimRight(TrimLeft(s))

\* new URL(s) succeeds on an absolute URL: one that starts with scheme and host
UrlParses(s) == Len(s) > 0 /\ s[1] \in HostToks

\* URL.prototype.toString(): a space left in the path or query is percent-encoded
UrlToString(s) == [i \in 1..Len(s) |-> IF s[i] = " " THEN "%20" ELSE s[i]]

normalizeCandidate(u) ==
    LET s == Trim(ReplaceNbsp(ReplaceAmp(u)))
    IN  IF UrlParses(s) THEN UrlToString(s) ELSE s

\* the v4.1 handler's normalizeCandidate: no URL round trip
normalizeCandidateV41(u) == Trim(ReplaceAmp(u))

\* the normalizer under test: "url" the cache handlers', "amp" the v4.1 handler's
NormKinds == {"url", "amp"}
Normalize(k, u) == IF k = "url" THEN normalizeCandidate(u) ELSE normalizeCandidateV41(u)

(***************************************************************************)
(* The handler versions.                                                   *)
(*   p000    src/unnamed/part_000: cache, dedup, one lookup attempt,       *)
(*           ephemeral notice when the post is refused                     *)
(*   slackA  src/pages/api/slack.js 1-207: app.message, cache, dedup,      *)
(*           lookup with one retry                                         *)
(*   slackB  src/pages/api/slack.js 209-415: as p000, post errors logged   *)
(*   p002    src/unnamed/part_002: setImmediate worker, lookup with retry  *)
(*   p001    src/unnamed/part_001: no cache, no dedup, silent on failure   *)
(*   v5      src/pages/api/odesli-probe.js 26-176 (v5-simple)              *)
(*   v41     src/pages/api/odesli-probe.js 178-330 (v4.1): placeholder,    *)
(*           lookup raced against a deadline, search-link fallback         *)
(*   v0      src/pages/api/odesli-probe.js 332-426: first version          *)
(***************************************************************************)
Variants == {"p000", "slackA", "slackB", "p002", "p001", "v5", "v41", "v0"}

\* the versions with const seenEvents = new Set() and const cache = new Map()
CacheVariants == {"p000", "slackA", "slackB", "p002"}
\* the versions whose fetchOdesli has a second try
RetryVariants == {"slackA", "p002"}

(***************************************************************************)
(* Inbound events.  A text is a sequence of words, each a string; an       *)
(* attachment holds up to three links, << >> for a field that is not set.  *)
(***************************************************************************)
W == <<"x">>
SP == <<"sp", "&", "x">>
SPA == <<"sp", "&", "amp;", "x">>
SPL == <<"sp", "&", "x", "|", "lbl">>
AM == <<"am", "x">>
YT == <<"yt", "x">>
EX == <<"ex", "x">>

Channels == {"C1", "C2"}
EventIds == {"E1", "E2"}

Att(f, t, o) == [from_url |-> f, title_link |-> t, original_url |-> o]

\* ts of the message an edit is about, older than the ts of any event
EditedTs == "0.9"
\* thread_ts of a message that was written in a thread
ParentTs == "0.5"

NoMsg ==
    [hasText |-> FALSE, text |-> << >>, hasAtts |-> FALSE, atts |-> << >>, bot_id |-> FALSE,
     ts |-> None]
Msg(t, hasA, a, b) ==
    [hasText |-> TRUE, text |-> t, hasAtts |-> hasA, atts |-> a, bot_id |-> b, ts |-> EditedTs]

\* an event of subtype st: outer text and attachments, nested message
Ev(st, b, hasT, t, hasA, a, hasM, m) ==
    [subtype |-> st, bot_id |-> b, channel |-> "C1", event_id |-> "E1",
     ts |-> "1.1", thread_ts |-> None,
     hasText |-> hasT, text |-> t, hasAtts |-> hasA, atts |-> a,
     hasMsg |-> hasM, message |-> m]

Plain(t, hasA, a) == Ev("none", FALSE, TRUE, t, hasA, a, FALSE, NoMsg)
Changed(m) == Ev("message_changed", FALSE, FALSE, << >>, FALSE, << >>, TRUE, m)
InThread(ev) == [ev EXCEPT !.thread_ts = ParentTs]

\* no event yet
NoEvent == Ev("none", FALSE, FALSE, << >>, FALSE, << >>, FALSE, NoMsg)

Shapes ==
    { Plain(<< >>, FALSE, << >>),
      Plain(<<W, EX>>, FALSE, << >>),
      Plain(<<SP>>, FALSE, << >>),
      InThread(Plain(<<SP>>, FALSE, << >>)),
      Plain(<<EX, SPA>>, FALSE, << >>),
      Plain(<<W, SPL>>, FALSE, << >>),
      Plain(<<W>>, TRUE, <<Att(EX, AM, << >>)>>),
      Plain(<<W, EX>>, TRUE, <<Att(EX, << >>, << >>), Att(<< >>, << >>, AM)>>),
      Plain(<<SP>>, TRUE, <<Att(AM, << >>, << >>)>>),
      Changed(Msg(<<W>>, FALSE, << >>, FALSE)),
      Changed(Msg(<<SP>>, FALSE, << >>, FALSE)),
      Changed(Msg(<<W>>, TRUE, <<Att(AM, << >>, << >>)>>, FALSE)),
      Changed(Msg(<<W>>, TRUE, <<Att(<< >>, SP, << >>)>>, FALSE)),
      Changed(Msg(<<SP>>, FALSE, << >>, TRUE)),
      Ev("bot_message", FALSE, TRUE, <<SP>>, FALSE, << >>, FALSE, NoMsg),
      Ev("none", TRUE, TRUE, <<SP>>, FALSE, << >>, FALSE, NoMsg),
      Ev("message_deleted", FALSE, TRUE, <<SP>>, FALSE, << >>, FALSE, NoMsg) }

\* the ts of the event that carries each event_id
TsOf == [e \in EventIds |-> IF e = "E1" THEN "1.1" ELSE "2.2"]

Events ==
    {[s EXCEPT !.channel = c, !.event_id = e, !.ts = TsOf[e]] :
        s \in Shapes, c \in Channels, e \in EventIds}

(***************************************************************************)
(* URL utilities.                                                          *)
(***************************************************************************)
\* what a function returns for "no URL": undefined or null
NoUrl == << >>

RECURSIVE CutAtPipe(_)
CutAtPipe(s) ==
    IF Len(s) = 0 \/ s[1] = "|" THEN << >> ELSE <<s[1]>> \o CutAtPipe(Tail(s))

\* cleanSlackUrl / cleanAngle: trim, drop <...>, cut at the '|' of <url|label>
cleanSlackUrl(raw) == IF Len(raw) = 0 THEN << >> ELSE Trim(CutAtPipe(Trim(raw)))

\* what /(https?:\/\/[^\s<>]+)/gi matches in a text: the words that are URLs
IsUrlWord(w) == Len(w) > 0 /\ w[1] \in HostToks
UrlMatches(text) == SelectSeq(text, IsUrlWord)

extractUrls(text) == [i \in 1..Len(UrlMatches(text)) |-> cleanSlackUrl(UrlMatches(text)[i])]

\* the v4.1 handler's extractUrls strips only the angle brackets
extractUrlsV41(text) == UrlMatches(text)

\* new URL(u).hostname is one of the music hosts; a string that does not parse is not
isSupportedMusicUrl(u) == UrlParses(u) /\ u[1] \in {"sp", "am", "yt"}

\* Array.prototype.find: the first element that satisfies the test, or undefined
FirstSupported(urls) ==
    LET hits == {i \in 1..Len(urls) : isSupportedMusicUrl(urls[i])}
    IN  IF hits = {} THEN NoUrl ELSE urls[CHOOSE i \in hits : \A j \in hits : i <= j]

pickFirstSupportedUrlFromText(text) == FirstSupported(extractUrls(text))

\* the link of one attachment: from_url, then title_link, then original_url
AttLink(a) ==
    IF Len(a.from_url) > 0 /\ isSupportedMusicUrl(a.from_url) THEN a.from_url
    ELSE IF Len(a.title_link) > 0 /\ isSupportedMusicUrl(a.title_link) THEN a.title_link
    ELSE IF Len(a.original_url) > 0 /\ isSupportedMusicUrl(a.original_url) THEN a.original_url
    ELSE NoUrl

\* the for loop over the attachments: the first one that has a supported link
RECURSIVE PickFromAtts(_)
PickFromAtts(atts) ==
    IF Len(atts) = 0 THEN NoUrl
    ELSE IF AttLink(atts[1]) # NoUrl THEN AttLink(atts[1])
    ELSE PickFromAtts(Tail(atts))

\* the v4.1 and part_001 loop looks at from_url only
RECURSIVE PickFromUrlOnly(_)
PickFromUrlOnly(atts) ==
    IF Len(atts) = 0 THEN NoUrl
    ELSE IF Len(atts[1].from_url) > 0 /\ isSupportedMusicUrl(atts[1].from_url)
         THEN atts[1].from_url
    ELSE PickFromUrlOnly(Tail(atts))

\* typeof event.text === 'string' ? event.text : (event.message && typeof
\* event.message.text === 'string' ? event.message.text : '')
EventText(ev) ==
    IF ev.hasText THEN ev.text
    ELSE IF ev.hasMsg /\ ev.message.hasText THEN ev.message.text
    ELSE << >>

\* ev.text || ev.message?.text || '': an empty outer text gives way to the nested one
EventTextOr(ev) ==
    IF ev.hasText /\ Len(ev.text) > 0 THEN ev.text
    ELSE IF ev.hasMsg /\ ev.message.hasText THEN ev.message.text
    ELSE << >>

\* event?.message?.attachments || event?.attachments || []
EventAtts(ev) ==
    IF ev.hasMsg /\ ev.message.hasAtts THEN ev.message.atts
    ELSE IF ev.hasAtts THEN ev.atts
    ELSE << >>

\* a search that looks into the attachments before the text
pickUrlFromEventAttsFirst(ev) ==
    LET url == PickFromAtts(EventAtts(ev))
    IN  IF url # NoUrl THEN url ELSE pickFirstSupportedUrlFromText(EventText(ev))

\* part_000, slack.js (second version), v5-simple: text first, then attachments
pickUrlFromEvent(ev) ==
    LET url == pickFirstSupportedUrlFromText(EventText(ev))
    IN  IF url # NoUrl THEN url ELSE PickFromAtts(EventAtts(ev))

\* v4.1: text, then the nested message's attachments, from_url only
pickUrlFromEventV41(ev) ==
    LET url == FirstSupported(extractUrlsV41(EventTextOr(ev)))
    IN  IF url # NoUrl THEN url
        ELSE PickFromUrlOnly(IF ev.hasMsg /\ ev.message.hasAtts THEN ev.message.atts ELSE << >>)

\* part_001: as v4.1, with cleanAngle applied to the matches
pickMusicUrlFromEventP001(ev) ==
    LET url == FirstSupported(extractUrls(EventTextOr(ev)))
    IN  IF url # NoUrl THEN url
        ELSE PickFromUrlOnly(IF ev.hasMsg /\ ev.message.hasAtts THEN ev.message.atts ELSE << >>)

\* the candidate URL each version finds in an event
Candidate(v, ev) ==
    CASE v \in {"p000", "slackB", "v5"} -> pickUrlFromEvent(ev)
      [] v \in {"slackA", "p002"} -> pickFirstSupportedUrlFromText(EventText(ev))
      [] v = "v41" -> pickUrlFromEventV41(ev)
      [] v = "p001" -> pickMusicUrlFromEventP001(ev)
      [] OTHER -> pickFirstSupportedUrlFromText(IF ev.hasText THEN ev.text ELSE << >>)

\* the URL each version looks up (and keys its cache with)
LookupUrl(v, raw) ==
    CASE v \in {"p000", "slackB", "p002"} -> normalizeCandidate(raw)
      [] v \in {"v41", "v5", "p001"} -> normalizeCandidateV41(raw)
      [] OTHER -> raw

(***************************************************************************)
(* Filters.                                                                *)
(***************************************************************************)
isIgnorableEvent(ev) ==
    \/ ev.subtype = "bot_message" \/ ev.bot_id
    \/ ev.subtype = "message_deleted"

\* the first version ignores edits as well
isIgnorableMessageV0(ev) ==
    \/ ev.subtype = "bot_message" \/ ev.bot_id
    \/ ev.subtype = "message_changed" \/ ev.subtype = "message_deleted"

\* v4.1 and part_001 test bot_message and bot_id only
isIgnorableBotOnly(ev) == ev.subtype = "bot_message" \/ ev.bot_id

Ignorable(v, ev) ==
    CASE v \in {"p000", "slackA", "slackB", "p002", "v5"} -> isIgnorableEvent(ev)
      [] v \in {"v41", "p001"} -> isIgnorableBotOnly(ev)
      [] OTHER -> isIgnorableMessageV0(ev)

\* a || b of two optional strings
OrElse(a, b) == IF a # None THEN a ELSE b

\* a listener that anchors every reply to the event's own ts
ThreadTsOwn(v, ev) == ev.ts

\* the thread_ts each version posts with
ThreadTs(v, ev) ==
    CASE v = "p001" -> ev.ts
      [] v = "v5" -> OrElse(ev.message.ts, OrElse(ev.thread_ts, ev.ts))
      [] v = "v41" -> OrElse(ev.message.ts, ev.ts)
      [] OTHER -> OrElse(ev.thread_ts, ev.ts)

\* a filter for which an empty list allows no channel
ChannelAllowedListed(list, ch) == ch \in list

\* !ALLOWED_CHANNELS.length || ALLOWED_CHANNELS.includes(channel)
ChannelAllowed(list, ch) == list = {} \/ ch \in list

(***************************************************************************)
(* Lookup results.  A body is what r.json() gives: null, or an object      *)
(* whose linksByPlatform may hold spotify, appleMusic and youtubeMusic,    *)
(* each with a url (<< >> is the empty string).                            *)
(***************************************************************************)
Services == {"spotify", "appleMusic", "youtubeMusic"}

NoLink == [has |-> FALSE, url |-> << >>]
Link(u) == [has |-> TRUE, url |-> u]
Body(sp, am, yt) == [null |-> FALSE, spotify |-> sp, appleMusic |-> am, youtubeMusic |-> yt]
NullBody == [null |-> TRUE, spotify |-> NoLink, appleMusic |-> NoLink, youtubeMusic |-> NoLink]

\* no getCached call on record
NoRead == [url |-> << >>, path |-> "none", data |-> NullBody]

RSP == <<"sp", "x">>
RAM == <<"am", "x">>
RYT == <<"yt", "x">>

Bodies ==
    { NullBody,
      Body(NoLink, NoLink, NoLink),
      Body(Link(<< >>), Link(RAM), NoLink),
      Body(Link(RSP), Link(RAM), Link(RYT)) }

\* data?.linksByPlatform?.<service>?.url, << >> when undefined or empty
LinkUrl(data, svc) == IF data.null \/ ~data[svc].has THEN << >> ELSE data[svc].url

\* how a lookup request ends: a 2xx answer with a JSON body, a non-2xx status,
\* the abort of the timeout, or a body that is not JSON
FailKinds == {"status", "timeout", "parse"}
Outcomes == {[kind |-> "ok", body |-> b] : b \in Bodies}
            \cup {[kind |-> k, body |-> NullBody] : k \in FailKinds}

(***************************************************************************)
(* The cache: a function from URL to [data, at].                           *)
(***************************************************************************)
Expired(c, url, t) == url \in DOMAIN c /\ t - c[url].at > CACHE_TTL_MS

\* a getCached that takes an entry for stale at the TTL already
getCachedAtTtl(c, url, t) ==
    IF url \notin DOMAIN c THEN NullBody
    ELSE IF t - c[url].at >= CACHE_TTL_MS THEN NullBody
    ELSE c[url].data

\* a getCached whose age test is the wrong way round
getCachedInverted(c, url, t) ==
    IF url \notin DOMAIN c THEN NullBody
    ELSE IF t - c[url].at <= CACHE_TTL_MS THEN NullBody
    ELSE c[url].data

\* getCached's result: null (NullBody) when absent or expired, else e.data
getCached(c, url, t) ==
    IF url \notin DOMAIN c THEN NullBody
    ELSE IF t - c[url].at > CACHE_TTL_MS THEN NullBody
    ELSE c[url].data

\* the return getCached leaves by: `if (!e) return null`, the TTL test, or e.data
ReadPath(c, url, t) ==
    IF url \notin DOMAIN c THEN "absent"
    ELSE IF Expired(c, url, t) THEN "expired"
    ELSE "fresh"

\* getCached's effect on the cache: cache.delete(url) of an expired entry
CacheAfterGet(c, url, t) ==
    IF Expired(c, url, t) THEN [k \in DOMAIN c \ {url} |-> c[k]] ELSE c

\* setCached: cache.set(url, { data, at: Date.now() })
setCached(c, url, data, t) ==
    [k \in DOMAIN c \cup {url} |-> IF k = url THEN [data |-> data, at |-> t] ELSE c[k]]

\* a listener that stores whatever the lookup ended with
CacheAfterLookupAlways(c, url, o, t) == setCached(c, url, o.body, t)

\* data = await fetchOdesli(candidate); setCached(candidate, data): the write
\* is reached only when fetchOdesli returned, a throw goes to the catch
CacheAfterLookup(c, url, o, t) ==
    IF o.kind = "ok" THEN setCached(c, url, o.body, t) ELSE c

(***************************************************************************)
(* seenEvents.                                                             *)
(***************************************************************************)
\* an add that is followed by no size test
SeenAfterAddNoClear(seen, eid) == seen \cup {eid}

\* seenEvents.add(eventId); if (seenEvents.size > 2000) seenEvents.clear()
SeenAfterAdd(seen, eid) ==
    IF Cardinality(seen \cup {eid}) > SEEN_LIMIT THEN {} ELSE seen \cup {eid}

\* a dedup step that comes before the search for the candidate
DedupBeforeUrlCheck(v, ev, cand) == v \in CacheVariants /\ ev.event_id # None

\* the dedup step runs only for an event that has an event_id, after a URL was found
DedupApplies(v, ev, cand) == v \in CacheVariants /\ cand # NoUrl /\ ev.event_id # None

(***************************************************************************)
(* Reply texts: a header, then the items, each a label followed by a URL,  *)
(* each item ended (sep "\n") or the items joined (sep " * ") by sep.      *)
(* Emoji and accents of the source's literals are left out.                *)
(***************************************************************************)
Text(h, sp, its) == [hdr |-> h, sep |-> sp, items |-> its]
NoText == Text("", "", << >>)

Item(l, u) == [label |-> l, url |-> u]

\* items built by a formatter that reads linksByPlatform.youtube, a key the
\* lookup result does not have
LinkItemsWrongKey(data, lsp, lam, lyt) ==
    (IF Len(LinkUrl(data, "spotify")) > 0 THEN <<Item(lsp, LinkUrl(data, "spotify"))>> ELSE << >>)
    \o (IF Len(LinkUrl(data, "appleMusic")) > 0 THEN <<Item(lam, LinkUrl(data, "appleMusic"))>> ELSE << >>)

\* the items of an equivalence reply: if (spotify) ..., if (apple) ..., if (youtube) ...
LinkItems(data, lsp, lam, lyt) ==
    (IF Len(LinkUrl(data, "spotify")) > 0 THEN <<Item(lsp, LinkUrl(data, "spotify"))>> ELSE << >>)
    \o (IF Len(LinkUrl(data, "appleMusic")) > 0 THEN <<Item(lam, LinkUrl(data, "appleMusic"))>> ELSE << >>)
    \o (IF Len(LinkUrl(data, "youtubeMusic")) > 0 THEN <<Item(lyt, LinkUrl(data, "youtubeMusic"))>> ELSE << >>)

NotFoundText == Text("No pude encontrar equivalencias", "", << >>)
TimeoutText ==
    Text("No pude obtener equivalencias ahora (timeout). Proba de nuevo en unos segundos.", "", << >>)
ProvisionalText == Text("Buscando equivalencias...", "", << >>)
EphemeralText == Text("No tengo permiso para publicar en este canal.", "", << >>)

\* part_000, slack.js, part_002 and the first version: one line per link
FormatReply(data) ==
    LET its == LinkItems(data, "- Spotify: ", "- Apple Music: ", "- YouTube Music: ")
    IN  IF its = << >> THEN NotFoundText ELSE Text("Links equivalentes:\n", "\n", its)

\* v5-simple and part_001: parts.join(' * ') after the note
FormatReplyV5(data) ==
    Text("", " * ", LinkItems(data, "Spotify: ", "Apple Music: ", "YouTube Music: "))

\* encodeURIComponent, token by token
EncTok(t) ==
    CASE t \in HostToks -> "https%3A%2F%2F" \o t \o "%2F"
      [] t = "&" -> "%26"
      [] t = "amp;" -> "amp%3B"
      [] t = " " -> "%20"
      [] t = "nb" -> "%C2%A0"
      [] t = "%20" -> "%2520"
      [] t = "|" -> "%7C"
      [] OTHER -> t
encodeURIComponent(u) == [i \in 1..Len(u) |-> EncTok(u[i])]

AppleSearch == "- Apple Music (busqueda): https://music.apple.com/us/search?term="
YouTubeSearch == "- YouTube Music (busqueda): https://music.youtube.com/search?q="
FallbackHeader == ":notes: No pude confirmar equivalencias exactas ahora, proba con estas busquedas:\n"

\* v4.1 buildFallback(url), title = ''
buildFallback(url) ==
    Text(FallbackHeader, "\n",
         <<Item(AppleSearch, encodeURIComponent(url)), Item(YouTubeSearch, encodeURIComponent(url))>>)

\* v4.1: the equivalence lines, or the fallback when there are none
FormatReplyV41(url, data) ==
    LET its == LinkItems(data, "- Spotify: ", "- Apple Music: ", "- YouTube Music: ")
    IN  IF its = << >> THEN buildFallback(url) ELSE Text(":notes: Links equivalentes:\n", "\n", its)

(***************************************************************************)
(* Handler runs.  runs[i] is the i-th inbound event's run of the listener: *)
(* where it stands (pc) and what it has done so far.                       *)
(*   out    how the synchronous part ended: "ignored" (filter), "channel"  *)
(*          (allow-list), "nourl", "dup" (seenEvents) or "go"              *)
(*   ch     the channel the event came from                                *)
(*   ts, thread_ts   the event's ts and thread_ts, while the listener runs *)
(*   pch, anchor     the channel and thread_ts arguments of the run's      *)
(*                   posts, while the listener runs                        *)
(*   url    the URL looked up                                              *)
(*   hit    the data came from the cache                                   *)
(*   reqs   HTTP requests issued to the lookup API                         *)
(*   fail   why the lookup failed, "deadline" when the v4.1 timer won      *)
(*   text   the reply text handed to chat.postMessage or chat.update       *)
(*   posts  chat.postMessage calls made with the reply text                *)
(*   edits  chat.update calls made with the reply text                     *)
(*   prov   the v4.1 placeholder post: "none", "sent", "ok" or "failed"    *)
(*   eph    chat.postEphemeral calls                                       *)
(*   sent   how the delivery of the reply text ended                       *)
(*   epoch  how often seenEvents had been cleared when the event came in   *)
(*   stale  getCached found an entry older than the TTL                    *)
(*   other  the loser of the v4.1 race: "lookup" or "timer" while it is    *)
(*          still pending after the other settled the race, "late" (the    *)
(*          lookup settled after the timer) or "fired" (the timer fired    *)
(*          after the lookup) once it is over, "none" before the race      *)
(***************************************************************************)
NewRun(ev, o, k) ==
    [pc |-> "done", out |-> o, eid |-> ev.event_id, ch |-> ev.channel,
     ts |-> None, thread_ts |-> None, pch |-> None, anchor |-> None,
     epoch |-> k, stale |-> FALSE,
     url |-> NoUrl, hit |-> FALSE, reqs |-> 0, fail |-> "none",
     data |-> NullBody, text |-> NoText, posts |-> 0, edits |-> 0,
     prov |-> "none", eph |-> 0, sent |-> "none", other |-> "none"]

\* a listener that looks for the candidate and never tests seenEvents
TriageNoDedup(v, list, seen, ev) ==
    IF Ignorable(v, ev) THEN "ignored"
    ELSE IF ~ChannelAllowed(list, ev.channel) THEN "channel"
    ELSE IF Candidate(v, ev) = NoUrl THEN "nourl"
    ELSE "go"

\* how the listener's synchronous part ends for event ev
Triage(v, list, seen, ev) ==
    IF Ignorable(v, ev) THEN "ignored"
    ELSE IF ~ChannelAllowed(list, ev.channel) THEN "channel"
    ELSE IF Candidate(v, ev) = NoUrl THEN "nourl"
    ELSE IF DedupApplies(v, ev, Candidate(v, ev)) /\ ev.event_id \in seen THEN "dup"
    ELSE "go"

\* seenEvents after the listener's synchronous part
SeenAfter(v, list, seen, ev) ==
    IF /\ ~Ignorable(v, ev)
       /\ ChannelAllowed(list, ev.channel)
       /\ DedupApplies(v, ev, Candidate(v, ev))
       /\ ev.event_id \notin seen
    THEN SeenAfterAdd(seen, ev.event_id)
    ELSE seen

\* whether this event's seenEvents.add is followed by seenEvents.clear()
ClearsSeen(v, list, seen, ev) ==
    /\ Triage(v, list, seen, ev) = "go"
    /\ DedupApplies(v, ev, Candidate(v, ev))
    /\ SeenAfterAdd(seen, ev.event_id) = {}

\* let data = getCached(candidate); if (!data) { ... fetchOdesli ... } else cache hit
CacheHit(c, url, t) == ~getCached(c, url, t).null

\* the run of a cache version once the candidate is known: a hit posts the reply
\* built from the cached data, a miss issues the lookup request
StartCached(r, c, t) ==
    IF CacheHit(c, r.url, t)
    THEN [r EXCEPT !.pc = "post", !.hit = TRUE, !.data = getCached(c, r.url, t),
                   !.text = FormatReply(getCached(c, r.url, t)), !.posts = 1]
    ELSE [r EXCEPT !.pc = "fetch", !.reqs = 1, !.stale = Expired(c, r.url, t)]

\* the run after the synchronous part of a processed event
Started(v, ev, c, t, k) ==
    LET r == [NewRun(ev, "go", k) EXCEPT !.url = LookupUrl(v, Candidate(v, ev)),
                                         !.ts = ev.ts, !.thread_ts = ev.thread_ts,
                                         !.pch = ev.channel, !.anchor = ThreadTs(v, ev)]
    IN  CASE v \in CacheVariants -> StartCached(r, c, t)
          [] v = "v41" -> [r EXCEPT !.pc = "prov", !.prov = "sent"]
          [] OTHER -> [r EXCEPT !.pc = "fetch", !.reqs = 1]

\* an inbound message event reaches the listener
Receive(ev) ==
    /\ Len(runs) < MaxRuns
    /\ LET o == Triage(ver, allowed, seenEvents, ev)
       IN  /\ runs' = Append(runs, IF o = "go" THEN Started(ver, ev, cache, now, clears)
                                   ELSE NewRun(ev, o, clears))
           /\ seenEvents' = SeenAfter(ver, allowed, seenEvents, ev)
           /\ clears' = IF ClearsSeen(ver, allowed, seenEvents, ev) THEN clears + 1 ELSE clears
           /\ cache' = IF o = "go" /\ ver \in CacheVariants
                       THEN CacheAfterGet(cache, LookupUrl(ver, Candidate(ver, ev)), now)
                       ELSE cache
    /\ UNCHANGED <<ver, allowed, now, nu, nk, nout, got, pev, pout, fw>>

SetRun(i, r) == runs' = [runs EXCEPT ![i] = r]

\* a listener whose awaits stand in no enclosing try block
CatchOfNoOuterTry(v, point) ==
    CASE point = "lookup" -> IF v = "v0" THEN "none" ELSE "inner"
      [] point \in {"post", "failpost"} -> IF v = "p000" THEN "inner" ELSE "none"
      [] point \in {"eph", "prov", "final"} -> "inner"
      [] OTHER -> "none"

\* the try block that catches a rejection of the await at a point of the
\* listener: "inner" the try around that await, "outer" the try around the
\* whole listener body (in part_002 around the setImmediate worker's body),
\* "none" when it would leave the listener.  Points: the lookup, the post of the
\* reply ("post"), the post of the timeout text from inside the lookup's catch
\* ("failpost"), the ephemeral notice, the v4.1 placeholder and final delivery
CatchOf(v, point) ==
    CASE point = "lookup" -> IF v = "v0" THEN "outer" ELSE "inner"
      [] point \in {"post", "failpost"} -> IF v = "p000" THEN "inner" ELSE "outer"
      [] point \in {"eph", "prov", "final"} -> "inner"
      [] OTHER -> "none"

\* what a rejection at a point makes of run r: next when it is caught, else the
\* listener's promise rejects
OnReject(v, point, r, next) ==
    IF CatchOf(v, point) = "none"
    THEN [r EXCEPT !.pc = "done", !.sent = "threw"]
    ELSE next

\* the listener returns: its locals are gone, what it did stays on record
Finish(r, how) ==
    [r EXCEPT !.pc = "done", !.sent = how, !.url = NoUrl, !.hit = FALSE, !.stale = FALSE,
              !.fail = "none", !.data = NullBody, !.text = NoText,
              !.ts = None, !.thread_ts = None, !.pch = None, !.anchor = None]

\* a fetchOdesli that tries a third time
TriesAgainTwice(v, reqs) == v \in RetryVariants /\ reqs <= 2

\* the catch of try 1 in the retrying fetchOdesli issues try 2; the catch of
\* try 2 throws
TriesAgain(v, reqs) == v \in RetryVariants /\ reqs = 1

\* the reply of a cache version to a lookup that failed
FailureReply(r, kind) ==
    [r EXCEPT !.pc = "post", !.fail = kind, !.text = TimeoutText, !.posts = 1]

\* fetchOdesli of a cache version ends: data is cached and the reply posted, a
\* failed first try of a retrying version issues the second request, a failure
\* posts the timeout apology
FetchDoneCached(i, o) ==
    /\ ver \in CacheVariants
    /\ cache' = CacheAfterLookup(cache, runs[i].url, o, now)
    /\ LET r == runs[i]
       IN  IF o.kind = "ok"
           THEN SetRun(i, [r EXCEPT !.pc = "post", !.data = o.body,
                                    !.text = FormatReply(o.body), !.posts = 1])
           ELSE SetRun(i, IF TriesAgain(ver, r.reqs)
                          THEN [r EXCEPT !.reqs = r.reqs + 1]
                          ELSE OnReject(ver, "lookup", r, FailureReply(r, o.kind)))

\* getOdesli of v5-simple and part_001 ends: silence on failure and on no links
FetchDoneSimple(i, o) ==
    /\ ver \in {"v5", "p001"}
    /\ cache' = cache
    /\ LET r == runs[i]
       IN  IF o.kind # "ok" THEN SetRun(i, OnReject(ver, "lookup", r, Finish(r, "none")))
           ELSE IF FormatReplyV5(o.body).items = << >>
           THEN SetRun(i, Finish(r, "none"))
           ELSE SetRun(i, [r EXCEPT !.pc = "post", !.data = o.body,
                                    !.text = FormatReplyV5(o.body), !.posts = 1])

\* the first version: fetch without a timeout, res.json() whatever the status; a
\* request that fails or a body that is not JSON reaches the outer catch
FetchDoneV0(i, o) ==
    /\ ver = "v0"
    /\ cache' = cache
    /\ LET r == runs[i]
           body == IF o.kind = "status" THEN Body(NoLink, NoLink, NoLink) ELSE o.body
       IN  IF o.kind \in {"timeout", "parse"}
           THEN SetRun(i, OnReject(ver, "lookup", r, Finish(r, "none")))
           ELSE SetRun(i, [r EXCEPT !.pc = "post", !.data = body,
                                    !.text = FormatReply(body), !.posts = 1])

\* a lookup request of run i ends with outcome o
FetchDone(i, o) ==
    /\ runs[i].pc = "fetch"
    /\ \/ FetchDoneCached(i, o)
       \/ FetchDoneSimple(i, o)
       \/ FetchDoneV0(i, o)
    /\ UNCHANGED <<ver, allowed, now, seenEvents, clears, nu, nk, nout, got, pev, pout, fw>>

\* how chat.postMessage ends: accepted, refused for a reason that part_000
\* answers with an ephemeral notice (not_in_channel, restricted_action), or
\* rejected for any other reason
PostResults == {"ok", "not_in_channel", "error"}

\* a catch that sends the notice whatever the reason of the rejection
NotifiesSenderAlways(v, res) == v = "p000"

\* if (reason === 'not_in_channel' || reason === 'restricted_action') postEphemeral
NotifiesSender(v, res) == v = "p000" /\ res = "not_in_channel"

\* chat.postMessage of the reply ends: part_000 answers a refusal with one
\* ephemeral notice, the other versions log the error
PostDone(i, res) ==
    /\ runs[i].pc = "post"
    /\ LET r == runs[i]
           point == IF r.fail = "none" THEN "post" ELSE "failpost"
       IN  SetRun(i, IF res = "ok" THEN Finish(r, res)
                     ELSE OnReject(ver, point, r,
                            IF NotifiesSender(ver, res)
                            THEN [r EXCEPT !.pc = "eph", !.sent = res, !.eph = 1]
                            ELSE Finish(r, res)))
    /\ UNCHANGED <<ver, allowed, now, seenEvents, cache, clears, nu, nk, nout, got, pev, pout, fw>>

\* chat.postEphemeral ends: the run is over, a rejection is logged
EphDone(i, ok) ==
    /\ runs[i].pc = "eph"
    /\ SetRun(i, IF ok THEN Finish(runs[i], runs[i].sent)
                 ELSE OnReject(ver, "eph", runs[i], Finish(runs[i], runs[i].sent)))
    /\ UNCHANGED <<ver, allowed, now, seenEvents, cache, clears, nu, nk, nout, got, pev, pout, fw>>

(***************************************************************************)
(* The v4.1 handler: placeholder, then the background task.                *)
(***************************************************************************)
\* a delivery that edits whether or not the placeholder post gave a ts
DeliverAlwaysEdits(r) == [r EXCEPT !.pc = "final", !.edits = 1]

\* the final delivery: chat.update of the placeholder when its post gave a ts,
\* else a fresh chat.postMessage
Deliver(r) ==
    IF r.prov = "ok" THEN [r EXCEPT !.pc = "final", !.edits = 1]
    ELSE [r EXCEPT !.pc = "final", !.posts = 1]

\* the placeholder post ends; the background task starts fetchOdesli and the timer
ProvDone(i, ok) ==
    /\ runs[i].pc = "prov"
    /\ LET next == [runs[i] EXCEPT !.pc = "race", !.reqs = 1,
                                    !.prov = IF ok THEN "ok" ELSE "failed"]
       IN  SetRun(i, IF ok THEN next ELSE OnReject(ver, "prov", runs[i], next))
    /\ UNCHANGED <<ver, allowed, now, seenEvents, cache, clears, nu, nk, nout, got, pev, pout, fw>>

\* fetchOdesli settles before the timer: the links, or the fallback when it
\* threw; the timer, which nothing clears, is still to fire
RaceFetch(i, o) ==
    /\ runs[i].pc = "race"
    /\ SetRun(i, IF o.kind = "ok"
                 THEN Deliver([runs[i] EXCEPT !.data = o.body, !.other = "timer",
                                              !.text = FormatReplyV41(runs[i].url, o.body)])
                 ELSE OnReject(ver, "lookup", runs[i],
                        Deliver([runs[i] EXCEPT !.fail = o.kind, !.other = "timer",
                                                !.text = buildFallback(runs[i].url)])))
    /\ UNCHANGED <<ver, allowed, now, seenEvents, cache, clears, nu, nk, nout, got, pev, pout, fw>>

\* a task that notes the timer and goes on awaiting the lookup
DeadlineKeepsWaiting(i) ==
    /\ runs[i].pc = "race"
    /\ runs[i].other = "none"
    /\ SetRun(i, [runs[i] EXCEPT !.other = "lookup"])
    /\ UNCHANGED <<ver, allowed, now, seenEvents, cache, clears, nu, nk, nout, got, pev, pout, fw>>

\* the timer of ODESLI_TIMEOUT_MS fires first: Promise.race rejects with
\* odesli-timeout; fetchOdesli, which has no timeout of its own and is not
\* aborted, is still outstanding
Deadline(i) ==
    /\ runs[i].pc = "race"
    /\ SetRun(i, OnReject(ver, "lookup", runs[i],
                    Deliver([runs[i] EXCEPT !.fail = "deadline", !.other = "lookup",
                                            !.text = buildFallback(runs[i].url)])))
    /\ UNCHANGED <<ver, allowed, now, seenEvents, cache, clears, nu, nk, nout, got, pev, pout, fw>>

\* a task that takes the links of a lookup that settles after the timer and
\* delivers them as well
LateLookupDelivers(i, o) ==
    /\ runs[i].other = "lookup"
    /\ SetRun(i, IF o.kind = "ok"
                 THEN Deliver([runs[i] EXCEPT !.other = "late", !.data = o.body,
                                              !.text = FormatReplyV41(runs[i].url, o.body)])
                 ELSE [runs[i] EXCEPT !.other = "late"])
    /\ UNCHANGED <<ver, allowed, now, seenEvents, cache, clears, nu, nk, nout, got, pev, pout, fw>>

\* fetchOdesli settles after the timer won the race: the race promise is
\* settled already, the value or the error goes nowhere
LateLookup(i, o) ==
    /\ runs[i].other = "lookup"
    /\ SetRun(i, [runs[i] EXCEPT !.other = "late"])
    /\ UNCHANGED <<ver, allowed, now, seenEvents, cache, clears, nu, nk, nout, got, pev, pout, fw>>

\* the timer fires after fetchOdesli settled the race: its rejection goes nowhere
LateTimer(i) ==
    /\ runs[i].other = "timer"
    /\ SetRun(i, [runs[i] EXCEPT !.other = "fired"])
    /\ UNCHANGED <<ver, allowed, now, seenEvents, cache, clears, nu, nk, nout, got, pev, pout, fw>>

\* chat.update or chat.postMessage of the final text ends; an error is logged
FinalDone(i, ok) ==
    /\ runs[i].pc = "final"
    /\ SetRun(i, IF ok THEN Finish(runs[i], "ok")
                 ELSE OnReject(ver, "final", runs[i], Finish(runs[i], "error")))
    /\ UNCHANGED <<ver, allowed, now, seenEvents, cache, clears, nu, nk, nout, got, pev, pout, fw>>

\* time passes; now is Date.now() as getCached and setCached read it, and the
\* versions without a cache never read the clock
Tick ==
    /\ ver \in CacheVariants
    /\ now < MaxTime
    /\ now' = now + 1
    /\ UNCHANGED <<ver, allowed, seenEvents, cache, runs, clears, nu, nk, nout, got, pev, pout, fw>>

(***************************************************************************)
(* The handler's specification.                                            *)
(***************************************************************************)
\* ALLOWED_CHANNELS as configured: channel C1 is allowed, C2 is not
AllowLists == {{"C1"}}

Init ==
    /\ ver \in Variants
    /\ allowed \in AllowLists
    /\ now = 0
    /\ seenEvents = {}
    /\ cache = [k \in {} |-> [data |-> NullBody, at |-> 0]]
    /\ runs = << >>
    /\ clears = 0
    /\ nu = << >>
    /\ nk = "url"
    /\ nout = << >>
    /\ got = NoRead
    /\ pev = NoEvent
    /\ pout = << >>
    /\ fw = NoCall

Next ==
    \/ \E ev \in Events : Receive(ev)
    \/ \E i \in DOMAIN runs : \E o \in Outcomes : FetchDone(i, o)
    \/ \E i \in DOMAIN runs : \E res \in PostResults : PostDone(i, res)
    \/ \E i \in DOMAIN runs : \E ok \in BOOLEAN : EphDone(i, ok)
    \/ \E i \in DOMAIN runs : \E ok \in BOOLEAN : ProvDone(i, ok)
    \/ \E i \in DOMAIN runs : \E o \in Outcomes : RaceFetch(i, o)
    \/ \E i \in DOMAIN runs : Deadline(i)
    \/ \E i \in DOMAIN runs : \E o \in Outcomes : LateLookup(i, o)
    \/ \E i \in DOMAIN runs : LateTimer(i)
    \/ \E i \in DOMAIN runs : \E ok \in BOOLEAN : FinalDone(i, ok)
    \/ Tick

Spec == Init /\ [][Next]_vars

(***************************************************************************)
(* Normalization on its own: a string u, a normalizer, and the results of  *)
(* applying it once and twice.                                             *)
(***************************************************************************)
InitNorm ==
    /\ ver = "p000"
    /\ allowed = {}
    /\ now = 0
    /\ seenEvents = {}
    /\ cache = [k \in {} |-> [data |-> NullBody, at |-> 0]]
    /\ runs = << >>
    /\ clears = 0
    /\ nu \in Strings
    /\ nk \in NormKinds
    /\ nout = << >>
    /\ got = NoRead
    /\ pev = NoEvent
    /\ pout = << >>
    /\ fw = NoCall

\* normalizeCandidate applied to u, then to its own result
NormStep ==
    /\ Len(nout) < 2
    /\ nout' = Append(nout, Normalize(nk, IF nout = << >> THEN nu ELSE nout[Len(nout)]))
    /\ UNCHANGED <<ver, allowed, now, seenEvents, cache, runs, clears, nu, nk, got, pev, pout, fw>>

NextNorm == NormStep

SpecNorm == InitNorm /\ [][NextNorm]_vars

(***************************************************************************)
(* The cache on its own: getCached and setCached called with any URL of    *)
(* CacheKeys at any time, as the listeners of the cache versions call      *)
(* them; got is the last getCached call: its argument, the return it left  *)
(* by and the value it returned.                                           *)
(***************************************************************************)
CacheKeys == {RSP, RAM, RYT, <<"sp", "x", "x">>}
CacheData == {NullBody, Body(Link(RSP), Link(RAM), Link(RYT))}

InitCache ==
    /\ ver = "p000"
    /\ allowed = {}
    /\ now = 0
    /\ seenEvents = {}
    /\ cache = [k \in {} |-> [data |-> NullBody, at |-> 0]]
    /\ runs = << >>
    /\ clears = 0
    /\ nu = << >>
    /\ nk = "url"
    /\ nout = << >>
    /\ got = NoRead
    /\ pev = NoEvent
    /\ pout = << >>
    /\ fw = NoCall

\* getCached(u)
CacheRead(u) ==
    /\ got' = [url |-> u, path |-> ReadPath(cache, u, now), data |-> getCached(cache, u, now)]
    /\ cache' = CacheAfterGet(cache, u, now)
    /\ UNCHANGED <<ver, allowed, now, seenEvents, runs, clears, nu, nk, nout, pev, pout, fw>>

\* setCached(u, d)
CacheWrite(u, d) ==
    /\ cache' = setCached(cache, u, d, now)
    /\ UNCHANGED <<ver, allowed, now, seenEvents, runs, clears, nu, nk, nout, got, pev, pout, fw>>

NextCache ==
    \/ \E u \in CacheKeys : CacheRead(u)
    \/ \E u \in CacheKeys : \E d \in CacheData : CacheWrite(u, d)
    \/ Tick

SpecCache == InitCache /\ [][NextCache]_vars

(***************************************************************************)
(* The URL search on its own: pickUrlFromEvent (part_000) and              *)
(* pickMusicUrlFromEvent (v5-simple) applied to an event pev, a new        *)
(* message or an edit, with any of PickTexts as its text and up to MaxAtts *)
(* attachments; pout holds the result.                                     *)
(***************************************************************************)
PickTexts == {<< >>, <<W>>, <<W, EX>>, <<SP>>, <<EX, SPA>>, <<W, SPL>>, <<AM, SP>>}
PickAtts ==
    { Att(<< >>, << >>, << >>), Att(EX, << >>, << >>), Att(AM, << >>, << >>),
      Att(EX, AM, << >>), Att(<< >>, YT, AM), Att(EX, EX, YT),
      Att(YT, AM, << >>), Att(<< >>, << >>, AM) }
PickAttLists == SeqsUpTo(PickAtts, MaxAtts)
PickEvents ==
    {Plain(t, TRUE, a) : t \in PickTexts, a \in PickAttLists}
    \cup {Plain(t, FALSE, << >>) : t \in PickTexts}
    \cup {Changed(Msg(t, TRUE, a, FALSE)) : t \in PickTexts, a \in PickAttLists}

InitPick ==
    /\ ver \in {"p000", "v5"}
    /\ allowed = {}
    /\ now = 0
    /\ seenEvents = {}
    /\ cache = [k \in {} |-> [data |-> NullBody, at |-> 0]]
    /\ runs = << >>
    /\ clears = 0
    /\ nu = << >>
    /\ nk = "url"
    /\ nout = << >>
    /\ got = NoRead
    /\ pev \in PickEvents
    /\ pout = << >>
    /\ fw = NoCall

\* const candidateRaw = pickUrlFromEvent(event)
PickStep ==
    /\ pout = << >>
    /\ pout' = <<Candidate(ver, pev)>>
    /\ UNCHANGED <<ver, allowed, now, seenEvents, cache, runs, clears, nu, nk, nout, got, pev, fw>>

NextPick == PickStep

SpecPick == InitPick /\ [][NextPick]_vars

(***************************************************************************)
(* The time a call of fetchOdesli takes in slack.js (first version), where *)
(* the listener awaits it before the platform is acknowledged.  fw is the  *)
(* call: the try it is in, the tenths of a second the request of that try  *)
(* has been outstanding (spent) and those since the call began (elapsed).  *)
(***************************************************************************)
InitWait ==
    /\ ver = "slackA"
    /\ allowed = {}
    /\ now = 0
    /\ seenEvents = {}
    /\ cache = [k \in {} |-> [data |-> NullBody, at |-> 0]]
    /\ runs = << >>
    /\ clears = 0
    /\ nu = << >>
    /\ nk = "url"
    /\ nout = << >>
    /\ got = NoRead
    /\ pev = NoEvent
    /\ pout = << >>
    /\ fw = [state |-> "waiting", try |-> 1, spent |-> 0, elapsed |-> 0]

\* a tenth of a second passes with the request outstanding; at FETCH_TIMEOUT
\* fetchWithTimeout has aborted it
WaitStep ==
    /\ fw.state = "waiting"
    /\ fw.spent < FETCH_TIMEOUT
    /\ fw' = [fw EXCEPT !.spent = @ + 1, !.elapsed = @ + 1]
    /\ UNCHANGED <<ver, allowed, now, seenEvents, cache, runs, clears, nu, nk, nout, got,
                   pev, pout>>

\* the request of the current try ends with outcome k; the abort comes at the
\* timeout and not before
RequestEnds(k) ==
    /\ fw.state = "waiting"
    /\ k = "timeout" <=> fw.spent = FETCH_TIMEOUT
    /\ fw' = IF k = "ok" THEN [fw EXCEPT !.state = "returned"]
             ELSE IF TriesAgain(ver, fw.try)
                  THEN [fw EXCEPT !.try = @ + 1, !.spent = 0]
                  ELSE [fw EXCEPT !.state = "threw"]
    /\ UNCHANGED <<ver, allowed, now, seenEvents, cache, runs, clears, nu, nk, nout, got,
                   pev, pout>>

NextWait ==
    \/ WaitStep
    \/ \E k \in {"ok"} \cup FailKinds : RequestEnds(k)

SpecWait == InitWait /\ [][NextWait]_vars

(***************************************************************************)
(* The listener of part_000 under either configuration of                  *)
(* ALLOWED_CHANNELS: left empty, or naming channel C1.                     *)
(***************************************************************************)
ChanLists == {{}, {"C1"}}

InitChan ==
    /\ ver = "p000"
    /\ allowed \in ChanLists
    /\ now = 0
    /\ seenEvents = {}
    /\ cache = [k \in {} |-> [data |-> NullBody, at |-> 0]]
    /\ runs = << >>
    /\ clears = 0
    /\ nu = << >>
    /\ nk = "url"
    /\ nout = << >>
    /\ got = NoRead
    /\ pev = NoEvent
    /\ pout = << >>
    /\ fw = NoCall

NextChan ==
    \/ \E ev \in Events : Receive(ev)
    \/ \E i \in DOMAIN runs : \E o \in Outcomes : FetchDone(i, o)
    \/ \E i \in DOMAIN runs : \E res \in PostResults : PostDone(i, res)
    \/ \E i \in DOMAIN runs : \E ok \in BOOLEAN : EphDone(i, ok)
    \/ Tick

SpecChan == InitChan /\ [][NextChan]_vars

(***************************************************************************)
(* A message and its edit: the listeners of part_000 and slack.js (second  *)
(* version) receive a user's message with a supported URL in its text, and *)
(* the message_changed event the platform sends for that message once the  *)
(* link is unfurled: another event_id and event ts, the nested message     *)
(* with the ts of the first event and the same URL in its text, with or    *)
(* without the unfurl's attachment.                                        *)
(***************************************************************************)
UrlMessage == [Plain(<<SP>>, FALSE, << >>) EXCEPT !.event_id = "E1", !.ts = TsOf["E1"]]
EditedMsgs ==
    { Msg(<<SP>>, FALSE, << >>, FALSE),
      Msg(<<SP>>, TRUE, <<Att(SP, SP, << >>)>>, FALSE),
      Msg(<<W>>, TRUE, <<Att(<< >>, SP, << >>)>>, FALSE) }
EditsOfUrlMessage ==
    {[Changed([m EXCEPT !.ts = UrlMessage.ts]) EXCEPT !.event_id = "E2", !.ts = TsOf["E2"]] :
        m \in EditedMsgs}
EditEvents == {UrlMessage} \cup EditsOfUrlMessage

InitEdit ==
    /\ ver \in {"p000", "slackB"}
    /\ allowed = {}
    /\ now = 0
    /\ seenEvents = {}
    /\ cache = [k \in {} |-> [data |-> NullBody, at |-> 0]]
    /\ runs = << >>
    /\ clears = 0
    /\ nu = << >>
    /\ nk = "url"
    /\ nout = << >>
    /\ got = NoRead
    /\ pev = NoEvent
    /\ pout = << >>
    /\ fw = NoCall

NextEdit ==
    \/ \E ev \in EditEvents : Receive(ev)
    \/ \E i \in DOMAIN runs : \E o \in Outcomes : FetchDone(i, o)
    \/ \E i \in DOMAIN runs : \E res \in PostResults : PostDone(i, res)
    \/ \E i \in DOMAIN runs : \E ok \in BOOLEAN : EphDone(i, ok)
    \/ Tick

SpecEdit == InitEdit /\ [][NextEdit]_vars

(***************************************************************************)
(* Claims.                                                                 *)
(***************************************************************************)
\* a supported music URL somewhere in the event: a word of the outer or the
\* nested text, or a link field of an outer or a nested attachment
TextHasUrl(text) == \E i \in 1..Len(text) : isSupportedMusicUrl(cleanSlackUrl(text[i]))
AttsHaveUrl(atts) ==
    \E i \in 1..Len(atts) :
        \/ isSupportedMusicUrl(atts[i].from_url)
        \/ isSupportedMusicUrl(atts[i].title_link)
        \/ isSupportedMusicUrl(atts[i].original_url)
NestedHasUrl(ev) == ev.hasMsg /\ (TextHasUrl(ev.message.text) \/ AttsHaveUrl(ev.message.atts))
HasSupportedUrl(ev) == TextHasUrl(ev.text) \/ AttsHaveUrl(ev.atts) \/ NestedHasUrl(ev)

\* the events without any supported URL
NoUrlEvents == {ev \in Events : ~HasSupportedUrl(ev)}
\* the edits of a human's message whose new version has a supported URL
EditedWithUrl ==
    {ev \in Events : ev.subtype = "message_changed" /\ ~ev.bot_id /\ NestedHasUrl(ev)}

\* the run the last Receive step added
LastRun == runs'[Len(runs')]

\* C1: in the versions with seenEvents (part_000, slack.js, part_002), of two
\* inbound events with the same event_id, the first of which found a supported
\* URL, with no seenEvents.clear() between their arrivals, the second stops at
\* the dedup check: it issues no lookup and posts nothing, and the first posts
\* at most one reply, so at most one reply is posted for that event_id.
C1_OneReplyPerEventId ==
    ver \in CacheVariants =>
        \A i, j \in DOMAIN runs :
            (i < j /\ runs[i].out = "go" /\ runs[i].eid = runs[j].eid
                   /\ runs[i].epoch = runs[j].epoch)
            => /\ runs[j].out # "go"
               /\ runs[j].pc = "done" /\ runs[j].reqs = 0 /\ runs[j].posts = 0
               /\ runs[i].posts <= 1

\* C1 witness: a second event with the id of a processed one was stopped as a
\* duplicate after the first had posted its reply
C1_Witness ==
    /\ ver \in {"p000", "slackB"}
    /\ \E i, j \in DOMAIN runs :
        /\ i < j /\ runs[i].eid = runs[j].eid
        /\ runs[i].out = "go" /\ runs[i].posts = 1 /\ runs[i].sent = "ok"
        /\ runs[j].out = "dup"

\* C2: handling an event that has no URL on a supported host, in its text or in
\* its attachments, changes nothing: seenEvents and the cache stay as they
\* were, no lookup request is issued and nothing is posted
C2_NoUrlNoEffect ==
    [][\A ev \in NoUrlEvents :
        (Len(runs') > Len(runs) /\ Receive(ev))
        => /\ seenEvents' = seenEvents
           /\ cache' = cache
           /\ LastRun.out \in {"nourl", "ignored", "channel"}
           /\ LastRun.pc = "done" /\ LastRun.reqs = 0
           /\ LastRun.posts = 0 /\ LastRun.edits = 0
           /\ LastRun.prov = "none" /\ LastRun.eph = 0]_vars

\* C2 witness: a handler with seenEvents has returned at the URL check, after
\* an earlier event had put its id into seenEvents and its data into the cache
C2_Witness ==
    /\ ver \in {"p000", "p002"}
    /\ seenEvents # {} /\ DOMAIN cache # {}
    /\ \E i \in DOMAIN runs : i > 1 /\ runs[i].out = "nourl"

\* C3: an event without a URL does not use up its slot: when the edited
\* version of the same event (message_changed, the URL in the nested text or
\* the nested attachments) comes in afterwards, on an allowed channel, it is
\* processed and replied to
C3_EditedVersionProcessed ==
    [][\A ev \in EditedWithUrl :
        (/\ Len(runs') > Len(runs)
         /\ ver \in {"p000", "v0"}
         /\ ChannelAllowed(allowed, ev.channel)
         /\ \E i \in DOMAIN runs : runs[i].out = "nourl" /\ runs[i].eid = ev.event_id
         /\ \A i \in DOMAIN runs : runs[i].out # "go"
         /\ Receive(ev))
        => LastRun.out = "go"]_vars

\* the events in which some supported URL can be found
UrlEvents == {ev \in Events : HasSupportedUrl(ev)}

\* the URL each version would look up for each event, its cache key
KeyOf == [v \in Variants |-> [ev \in UrlEvents |-> LookupUrl(v, Candidate(v, ev))]]

C5_ExpiredEntryOneLookup ==
    ver \in {"p000", "slackA"} =>
        \A i \in DOMAIN runs : runs[i].stale => (~runs[i].hit /\ runs[i].reqs = 1)

\* the fallback-search text: the header that offers searches, then search links
SpotifySearch == "- Spotify (busqueda): https://open.spotify.com/search/"
SearchLabels == {AppleSearch, YouTubeSearch, SpotifySearch}
IsFallbackSearch(text) ==
    /\ text.hdr = FallbackHeader
    /\ text.items # << >>
    /\ \A k \in 1..Len(text.items) : text.items[k].label \in SearchLabels

\* the ways a lookup times out or is answered with a non-2xx status
TimeoutOrStatus == {"timeout", "status", "deadline"}

\* C6: when the lookup times out the reply is the fallback-search text, and
\* when the lookup is answered with a non-2xx status the reply is the same as
\* in the timeout case
C6_FailureGivesFallbackSearch ==
    ver \in {"v41", "p000"} =>
        /\ \A i \in DOMAIN runs :
            runs[i].fail \in TimeoutOrStatus => IsFallbackSearch(runs[i].text)
        /\ \A i, j \in DOMAIN runs :
            (/\ runs[i].fail \in TimeoutOrStatus /\ runs[j].fail \in TimeoutOrStatus
             /\ runs[i].url = runs[j].url)
            => runs[i].text = runs[j].text

\* the service a URL belongs to, the service a search link searches
ServiceOfUrl(u) ==
    CASE u[1] = "sp" -> "spotify"
      [] u[1] = "am" -> "appleMusic"
      [] u[1] = "yt" -> "youtubeMusic"
      [] OTHER -> "none"
ServiceOfSearch(label) ==
    CASE label = SpotifySearch -> "spotify"
      [] label = AppleSearch -> "appleMusic"
      [] label = YouTubeSearch -> "youtubeMusic"
      [] OTHER -> "none"
SearchedServices(text) == {ServiceOfSearch(text.items[k].label) : k \in 1..Len(text.items)}

\* C7: the fallback text for a candidate URL has a search link for every
\* supported service other than the candidate's own, and none for its own
C7_FallbackOmitsOwnService ==
    ver = "v41" =>
        \A i \in DOMAIN runs :
            (runs[i].pc = "final" /\ runs[i].text.hdr = FallbackHeader)
            => SearchedServices(runs[i].text) = Services \ {ServiceOfUrl(runs[i].url)}

\* the services for which a lookup result has a non-empty URL
PresentServices(data) == {svc \in Services : Len(LinkUrl(data, svc)) > 0}

\* the service an item of an equivalence reply is labelled with
ServiceOfLabel(label) ==
    CASE label \in {"- Spotify: ", "Spotify: "} -> "spotify"
      [] label \in {"- Apple Music: ", "Apple Music: "} -> "appleMusic"
      [] label \in {"- YouTube Music: ", "YouTube Music: "} -> "youtubeMusic"
      [] OTHER -> "none"

\* the lines of a text that carry a service: one per item when each item ends
\* its line, one in all when the items are joined on a line
ServiceLines(text) ==
    IF text.items = << >> THEN 0
    ELSE IF text.sep = "\n" THEN Len(text.items) ELSE 1

\* the runs that are posting the reply to a lookup result, fetched or cached
PostsResult(r) == r.pc = "post" /\ r.fail = "none" /\ ~r.data.null

\* C8, as the specification words it: a lookup result with URLs for all three
\* services gives a reply of exactly three lines, one per service; in general
\* the reply has one service line per service present in the result and none
\* for an absent one
C8_OneLinePerService ==
    ver \in {"p000", "v5"} =>
        \A i \in DOMAIN runs :
            PostsResult(runs[i])
            => ServiceLines(runs[i].text) = Cardinality(PresentServices(runs[i].data))

\* C8, amended: the reply has exactly one entry per service for which the
\* lookup result has a non-empty URL, labelled with the service and carrying
\* that URL, and none for the other services (three entries when all three
\* are there); part_000 puts each entry on a line of its own, v5-simple joins
\* the entries on a single line
C8_OneEntryPerService ==
    ver \in {"p000", "v5"} =>
        \A i \in DOMAIN runs :
            PostsResult(runs[i])
            => LET its == runs[i].text.items
                   present == PresentServices(runs[i].data)
               IN  /\ Len(its) = Cardinality(present)
                   /\ \A svc \in present :
                        \E k \in 1..Len(its) :
                            /\ ServiceOfLabel(its[k].label) = svc
                            /\ its[k].url = LinkUrl(runs[i].data, svc)
                            /\ Len(its[k].url) > 0
                   /\ its # << >> =>
                        /\ ver = "p000" => ServiceLines(runs[i].text) = Len(its)
                        /\ ver = "v5" => ServiceLines(runs[i].text) = 1

\* C8 witness: part_000 is posting the three-line reply to a lookup result
\* that has all three services
C8_Witness ==
    /\ ver = "p000"
    /\ \E i \in DOMAIN runs :
        /\ PostsResult(runs[i])
        /\ PresentServices(runs[i].data) = Services
        /\ ServiceLines(runs[i].text) = 3

\* the fixed templates a reply is taken from
IsEquivalenceList(text) ==
    /\ text.items # << >>
    /\ \A k \in 1..Len(text.items) :
        ServiceOfLabel(text.items[k].label) # "none" /\ Len(text.items[k].url) > 0
CannedApologies == {TimeoutText, NotFoundText}
IsTemplate(text) == IsEquivalenceList(text) \/ IsFallbackSearch(text) \/ text \in CannedApologies

\* C9: a delivered reply is never empty and is one of the fixed templates
\* (equivalence list, fallback-search text, canned apology), and when the
\* deadline elapses before the lookup ends the text is the canned apology,
\* not the fallback-search text
C9_TemplateAndApologyOnDeadline ==
    ver \in {"v41", "p000"} =>
        \A i \in DOMAIN runs :
            runs[i].pc \in {"post", "final"}
            => /\ runs[i].text # NoText
               /\ IsTemplate(runs[i].text)
               /\ runs[i].fail = "deadline"
                    => (runs[i].text \in CannedApologies /\ ~IsFallbackSearch(runs[i].text))

\* C10: normalization is idempotent: normalizeCandidate applied to its own
\* result gives that result again, whatever string it started from
C10_NormalizeIdempotent ==
    Len(nout) = 2 => nout[2] = nout[1]

\* C11: no failure of the lookup, of JSON parsing, of the reply post, of the
\* edit, of the placeholder or of the ephemeral notice leaves the listener or
\* the background task it starts: no run ends with its promise rejected, and a
\* run that met a failure ends having replied or logged
C11_NoErrorLeavesHandler ==
    \A i \in DOMAIN runs :
        /\ runs[i].sent # "threw"
        /\ runs[i].pc = "done" => runs[i].sent \in {"none", "ok", "not_in_channel", "error"}

\* C11 witness: in part_002 both lookup requests failed, the post of the
\* timeout text failed as well, and the worker ended with the error logged
C11_Witness ==
    /\ ver = "p002"
    /\ \E i \in DOMAIN runs :
        runs[i].pc = "done" /\ runs[i].reqs = 2 /\ runs[i].posts = 1 /\ runs[i].sent = "error"

\* C12 as stated: in part_000 every rejected reply post is followed by one
\* ephemeral notice, the post is made once, and a later event with the same
\* event_id is not processed again
C12_RejectedPostGetsNotice ==
    ver = "p000" =>
        \A i \in DOMAIN runs :
            /\ runs[i].posts <= 1
            /\ (runs[i].pc = "done" /\ runs[i].sent \in {"not_in_channel", "error"})
                   => runs[i].eph = 1
            /\ \A j \in DOMAIN runs :
                   (i < j /\ runs[i].out = "go" /\ runs[i].eid = runs[j].eid)
                   => runs[j].out # "go"

\* C12: in part_000 a reply post refused with not_in_channel or
\* restricted_action is followed by exactly one ephemeral notice, whose failure
\* ends the run; any other rejection is logged with no notice; the post is never
\* made a second time, and a later event with the same event_id is not processed
\* again while seenEvents has not been cleared
C12_RefusedPostGetsNotice ==
    ver = "p000" =>
        \A i \in DOMAIN runs :
            /\ runs[i].posts <= 1 /\ runs[i].eph <= 1
            /\ runs[i].eph = 1 <=> (runs[i].posts = 1 /\ runs[i].sent = "not_in_channel")
            /\ runs[i].pc = "eph" => runs[i].eph = 1
            /\ \A j \in DOMAIN runs :
                   (i < j /\ runs[i].out = "go" /\ runs[i].eid = runs[j].eid
                          /\ runs[i].epoch = runs[j].epoch)
                   => (runs[j].out # "go" /\ runs[j].posts = 0 /\ runs[j].eph = 0)

\* C12 witness: the post was refused, one notice was attempted, the run is over,
\* and the redelivered event was stopped as a duplicate
C12_Witness ==
    /\ ver = "p000"
    /\ \E i, j \in DOMAIN runs :
        /\ i < j /\ runs[i].eid = runs[j].eid
        /\ runs[i].pc = "done" /\ runs[i].sent = "not_in_channel"
        /\ runs[i].posts = 1 /\ runs[i].eph = 1
        /\ runs[j].out = "dup"

\* C13: in part_000, v5-simple and part_001 every event that passed the filter,
\* the allow-list, the search for a URL and the dedup check ends with exactly
\* one chat.postMessage call made for it, whatever the lookup gave: no run makes
\* a second post and no processed run is over without one
C13_ProcessedEventGetsOnePost ==
    ver \in {"p000", "v5", "p001"} =>
        \A i \in DOMAIN runs :
            runs[i].out = "go" =>
                /\ runs[i].posts <= 1
                /\ runs[i].pc = "done" => runs[i].posts = 1

\* C14: one call of fetchOdesli (part_000, slack.js, part_002) issues at most
\* one HTTP request: a run, which calls fetchOdesli at most once, never counts a
\* second request, and a lookup that failed is reported to the caller after
\* the first request
C14_OneRequestPerCall ==
    ver \in {"p000", "slackA", "p002"} =>
        \A i \in DOMAIN runs :
            /\ runs[i].reqs <= 1
            /\ runs[i].fail # "none" => runs[i].reqs = 1

\* the text a version replies with when the lookup fails outright
FailureText(v, url) == IF v = "v41" THEN buildFallback(url) ELSE TimeoutText

\* C15: in v4.1 and part_000 a lookup answered 2xx with none of the three
\* service URLs is replied to as a failed lookup is: the text handed to the
\* post or the edit is the text of the failure path
C15_EmptyMappingRepliesAsFailure ==
    ver \in {"v41", "p000"} =>
        \A i \in DOMAIN runs :
            (/\ runs[i].pc \in {"post", "final"}
             /\ runs[i].reqs = 1 /\ runs[i].fail = "none"
             /\ PresentServices(runs[i].data) = {})
            => runs[i].text = FailureText(ver, runs[i].url)

\* C16: in v4.1, once the timer has fired while fetchOdesli is outstanding the
\* final text is the fallback and the delivery call has been made: no run
\* stands at the race with the timer fired, and the run goes through its
\* delivery and ends whether or not the lookup ever settles
C16_DeadlineEndsResolution ==
    ver = "v41" =>
        \A i \in DOMAIN runs :
            /\ runs[i].pc = "race" => runs[i].other = "none"
            /\ runs[i].other = "lookup" =>
                   /\ runs[i].pc \in {"final", "done"}
                   /\ runs[i].posts + runs[i].edits = 1
            /\ runs[i].fail = "deadline" =>
                   /\ runs[i].pc = "final"
                   /\ runs[i].other \in {"lookup", "late"}
                   /\ runs[i].text = buildFallback(runs[i].url)

\* C16 witness: the timer won, the fallback was delivered by an edit and the run
\* is over while the lookup is still outstanding
C16_Witness ==
    /\ ver = "v41"
    /\ \E i \in DOMAIN runs :
        /\ runs[i].pc = "done" /\ runs[i].other = "lookup"
        /\ runs[i].edits = 1 /\ runs[i].sent = "ok"

\* the text v4.1 delivers, by what settled the race first
RaceText(r) ==
    IF r.other \in {"lookup", "late"} \/ r.fail # "none"
    THEN buildFallback(r.url)
    ELSE FormatReplyV41(r.url, r.data)

\* C17: in v4.1 the delivered text is fixed by whichever of the lookup and the
\* timer settled the race, and once the delivery call is made no step, the late
\* settling of the other included, changes the text or the number of posts and
\* edits: the late settling changes nothing of the run but the record of itself
C17_LateResultNotUsed ==
    /\ [](ver = "v41" =>
            \A i \in DOMAIN runs : runs[i].pc = "final" => runs[i].text = RaceText(runs[i]))
    /\ [][ver = "v41" =>
            \A i \in DOMAIN runs :
                runs[i].pc \in {"final", "done"} =>
                    /\ runs'[i].posts = runs[i].posts
                    /\ runs'[i].edits = runs[i].edits
                    /\ runs'[i].text \in {runs[i].text, NoText}
                    /\ runs'[i].pc \in {"final", "done"}
                    /\ runs'[i].other # runs[i].other =>
                           runs'[i] = [runs[i] EXCEPT !.other = runs'[i].other]]_vars

\* C17 witness: the timer won, the fallback was delivered by one edit, and the
\* lookup settled afterwards
C17_Witness ==
    /\ ver = "v41"
    /\ \E i \in DOMAIN runs :
        /\ runs[i].pc = "done" /\ runs[i].other = "late"
        /\ runs[i].edits = 1 /\ runs[i].posts = 0 /\ runs[i].sent = "ok"

\* C18: in v4.1 the lookup starts only after the placeholder post has settled;
\* the final text is then delivered with exactly one call, chat.update when the
\* placeholder post succeeded and chat.postMessage when it failed, never both
\* and never an edit without a placeholder that succeeded
C18_TwoPhaseDelivery ==
    ver = "v41" =>
        \A i \in DOMAIN runs :
            runs[i].out = "go" =>
                /\ runs[i].pc = "prov" => (runs[i].prov = "sent" /\ runs[i].reqs = 0)
                /\ runs[i].reqs >= 1 => runs[i].prov \in {"ok", "failed"}
                /\ runs[i].pc \in {"prov", "race"} => runs[i].posts + runs[i].edits = 0
                /\ runs[i].pc \in {"final", "done"} => runs[i].posts + runs[i].edits = 1
                /\ runs[i].edits = 1 => runs[i].prov = "ok"
                /\ runs[i].posts = 1 => runs[i].prov = "failed"

\* C18 witness: one run delivered by editing its placeholder, another by a
\* fresh post after its placeholder post had failed
C18_Witness ==
    /\ ver = "v41"
    /\ \E i, j \in DOMAIN runs :
        /\ runs[i].pc = "done" /\ runs[i].prov = "ok" /\ runs[i].edits = 1 /\ runs[i].posts = 0
        /\ runs[j].pc = "done" /\ runs[j].prov = "failed" /\ runs[j].posts = 1 /\ runs[j].edits = 0

\* the threshold the cache is said to be held to (2000 entries), scaled
CACHE_LIMIT == 2

\* C19: getCached(u) returns null when the cache has no entry for u, and when
\* the entry is older than the TTL, in which case that entry is deleted and
\* every other entry stays as it was; an entry whose age is at most the TTL has
\* its data returned and the cache stays as it was
C19_CacheRead ==
    [][\A u \in CacheKeys :
        CacheRead(u) =>
            /\ got'.url = u
            /\ u \notin DOMAIN cache => (got'.data = NullBody /\ cache' = cache)
            /\ (u \in DOMAIN cache /\ now - cache[u].at > CACHE_TTL_MS) =>
                   /\ got'.data = NullBody
                   /\ DOMAIN cache' = DOMAIN cache \ {u}
                   /\ \A k \in DOMAIN cache' : cache'[k] = cache[k]
            /\ (u \in DOMAIN cache /\ now - cache[u].at <= CACHE_TTL_MS) =>
                   (got'.data = cache[u].data /\ cache' = cache)]_vars

\* C19 witness: the last read found an expired entry, returned null and deleted
\* it, while a fresh entry of another URL stays in the cache
C19_Witness ==
    /\ got.path = "expired" /\ got.data = NullBody
    /\ got.url \notin DOMAIN cache
    /\ \E k \in DOMAIN cache : now - cache[k].at <= CACHE_TTL_MS /\ ~cache[k].data.null

\* C20: the cache never holds more than the threshold plus one entries, and a
\* setCached that finds more than the threshold leaves the new entry alone in
\* the cache
C20_WriteClearsFullCache ==
    /\ [](Cardinality(DOMAIN cache) <= CACHE_LIMIT + 1)
    /\ [][\A u \in CacheKeys : \A d \in CacheData :
            (Cardinality(DOMAIN cache) > CACHE_LIMIT /\ CacheWrite(u, d))
            => DOMAIN cache' = {u}]_vars

\* C21: after every step of a handler seenEvents holds at most SEEN_LIMIT event
\* ids, and a step changes the set only by adding the event's id or by
\* emptying it
C21_SeenEventsBounded ==
    /\ [](Cardinality(seenEvents) <= SEEN_LIMIT)
    /\ [][\/ seenEvents' = seenEvents
          \/ seenEvents' = {}
          \/ \E e \in EventIds \ {None} : seenEvents' = seenEvents \cup {e}]_vars

\* C21 witness: a version that keeps seenEvents has cleared it: the second of
\* two processed events brought the size above the limit
C21_Witness ==
    /\ ver \in {"p000", "p002"}
    /\ clears = 1 /\ seenEvents = {}
    /\ Len(runs) = 2 /\ runs[1].out = "go" /\ runs[2].out = "go"
    /\ runs[1].eid # runs[2].eid

\* the lookups that complete successfully
OkOutcomes == {o \in Outcomes : o.kind = "ok"}

\* C22: in part_000 and v4.1 the step in which a lookup completes successfully
\* leaves the cache with an entry for the run's normalized URL that holds the
\* lookup's result, stamped with the current time, whether the result goes into
\* the reply or came after the timer; it is there when the post or the edit of
\* the reply is in flight
C22_SuccessfulLookupIsCached ==
    [][(ver \in {"p000", "v41"} /\ runs' # runs) =>
        \A i \in DOMAIN runs : \A o \in OkOutcomes :
            (FetchDone(i, o) \/ RaceFetch(i, o) \/ LateLookup(i, o)) =>
                /\ runs[i].url \in DOMAIN cache'
                /\ cache'[runs[i].url] = [data |-> o.body, at |-> now]
                /\ runs'[i].pc \in {"post", "final", "done"}]_vars

\* C23: the cache holds lookup results only, and it changes only by the write
\* that follows a lookup that completed successfully, which stores that
\* lookup's data, or by the deletion of an expired entry on a read; the step in
\* which a lookup fails leaves the cache as it was
C23_CacheWrittenOnSuccessOnly ==
    /\ [](\A k \in DOMAIN cache : cache[k].data \in Bodies /\ cache[k].at <= now)
    /\ [][cache' # cache =>
            /\ \/ \E k \in DOMAIN cache :
                     Expired(cache, k, now) /\ cache' = CacheAfterGet(cache, k, now)
               \/ \E i \in DOMAIN runs : \E o \in OkOutcomes :
                     /\ FetchDone(i, o)
                     /\ cache' = setCached(cache, runs[i].url, o.body, now)
            /\ \A i \in DOMAIN runs : \A o \in Outcomes \ OkOutcomes : ~FetchDone(i, o)]_vars

\* C23 witness: in part_000 one lookup succeeded and was cached, another
\* failed: its timeout apology is being posted and its URL has no entry
C23_Witness ==
    /\ ver = "p000"
    /\ \E i, j \in DOMAIN runs :
        /\ runs[i].pc = "post" /\ runs[i].fail \in FailKinds
        /\ runs[i].text = TimeoutText /\ runs[i].url \notin DOMAIN cache
        /\ runs[j].out = "go" /\ runs[j].reqs = 1 /\ runs[j].posts = 1
        /\ runs[j].pc = "done" /\ DOMAIN cache # {}

\* the events marked as written by a bot or as a deletion
MarkedEvents ==
    {ev \in Events : ev.bot_id \/ ev.subtype \in {"bot_message", "message_deleted"}}

\* C24: in part_000 and part_001 handling an event marked as bot-authored or as
\* deleted does nothing, whatever its text holds: the run ends at once with no
\* lookup request, no post and no placeholder, and seenEvents and the cache
\* stay as they were
C24_MarkedEventNoEffect ==
    [][(Len(runs') > Len(runs) /\ ver \in {"p000", "p001"}) =>
        \A ev \in MarkedEvents :
            Receive(ev) =>
                /\ LastRun.pc = "done" /\ LastRun.out # "go"
                /\ LastRun.reqs = 0 /\ LastRun.posts = 0 /\ LastRun.prov = "none"
                /\ seenEvents' = seenEvents
                /\ cache' = cache]_vars

C26_RepliesInThread ==
    ver \in {"p000", "slackA", "slackB", "p002", "v0"} =>
        \A i \in DOMAIN runs :
            (runs[i].pc = "post" /\ runs[i].posts = 1) =>
                /\ runs[i].pch = runs[i].ch
                /\ runs[i].anchor # None
                /\ runs[i].thread_ts # None => runs[i].anchor = runs[i].thread_ts
                /\ runs[i].thread_ts = None => runs[i].anchor = runs[i].ts

\* C26 witness: part_000 is posting its reply to a message written in a thread
\* under that thread's parent, and its reply to a top-level message under the
\* message itself
C26_Witness ==
    /\ ver = "p000"
    /\ \E i, j \in DOMAIN runs :
        /\ runs[i].pc = "post" /\ runs[i].posts = 1
        /\ runs[i].thread_ts = ParentTs /\ runs[i].anchor = ParentTs
        /\ runs[j].pc = "post" /\ runs[j].posts = 1
        /\ runs[j].thread_ts = None /\ runs[j].anchor = runs[j].ts

\* the fields of an attachment in the order the loop tests them
AttFields == <<"from_url", "title_link", "original_url">>
AttField(a, f) == a[AttFields[f]]

\* position (k, f) comes before position (k2, f2) in the scan of the attachments
ScannedBefore(k, f, k2, f2) == k < k2 \/ (k = k2 /\ f < f2)

\* C27: the candidate is the first supported URL of the text when the text has
\* one, whatever the attachments hold; else the first supported link of the
\* attachments in list order, each attachment's from_url before its title_link
\* before its original_url; else none
C27_TextBeforeAttachments ==
    pout # << >> =>
        LET text == EventText(pev)
            atts == EventAtts(pev)
            inText == {i \in 1..Len(text) : isSupportedMusicUrl(cleanSlackUrl(text[i]))}
            inAtts == {kf \in (1..Len(atts)) \X (1..3) :
                          isSupportedMusicUrl(AttField(atts[kf[1]], kf[2]))}
        IN  /\ inText # {} =>
                   \E i \in inText : /\ \A j \in inText : i <= j
                                     /\ pout[1] = cleanSlackUrl(text[i])
            /\ (inText = {} /\ inAtts # {}) =>
                   \E kf \in inAtts :
                       /\ \A other \in inAtts \ {kf} :
                              ScannedBefore(kf[1], kf[2], other[1], other[2])
                       /\ pout[1] = AttField(atts[kf[1]], kf[2])
            /\ (inText = {} /\ inAtts = {}) => pout[1] = NoUrl

\* C27 witness: the text holds a supported URL, an attachment holds another,
\* and the candidate found is the one of the text
C27_Witness ==
    /\ pout # << >>
    /\ TextHasUrl(EventText(pev))
    /\ AttsHaveUrl(EventAtts(pev))
    /\ PickFromAtts(EventAtts(pev)) # pout[1]
    /\ pout[1] = pickFirstSupportedUrlFromText(EventText(pev))

\* what a step of run i away from its lookup request must be: the settling of
\* the request with some outcome, and what follows from it
RetryStep(i) ==
    \E o \in Outcomes :
        /\ FetchDone(i, o)
        /\ (o.kind = "ok") =>
               (/\ runs'[i].reqs = runs[i].reqs
                /\ runs'[i].pc = "post" /\ runs'[i].data = o.body
                /\ runs'[i].fail = "none")
        /\ (o.kind # "ok" /\ runs[i].reqs = 1) =>
               (/\ runs'[i].reqs = 2 /\ runs'[i].pc = "fetch"
                /\ runs'[i].fail = "none" /\ runs'[i].posts = 0)
        /\ (o.kind # "ok" /\ runs[i].reqs = 2) =>
               (/\ runs'[i].reqs = 2 /\ runs'[i].pc = "post"
                /\ runs'[i].fail = o.kind)

\* C28: in the versions whose fetchOdesli retries (slack.js first version,
\* part_002) a call makes at most two requests; a request that succeeds ends
\* the call with its data and no further request; the second request follows
\* the failure of the first and nothing else; and when the second fails too
\* the call fails with the second request's error
C28_RetryProtocol ==
    /\ [](ver \in RetryVariants => \A i \in DOMAIN runs : runs[i].reqs <= 2)
    /\ [][(ver \in RetryVariants) =>
            \A i \in DOMAIN runs :
                (runs[i].pc = "fetch" /\ runs'[i] # runs[i]) => RetryStep(i)]_vars

\* C28 witness: in slack.js the first request failed, the second was issued and
\* could not be parsed, and the call failed with the parse error
C28_Witness ==
    /\ ver = "slackA"
    /\ \E i \in DOMAIN runs :
        runs[i].reqs = 2 /\ runs[i].pc = "post" /\ runs[i].fail = "parse"

\* C29: in slack.js (first version) the time the listener has waited on
\* fetchOdesli never exceeds the response budget, whatever the requests end
\* with
C29_LookupWaitWithinBudget ==
    fw.elapsed <= RESPONSE_BUDGET

\* the edits of a message written by a bot: message_changed events whose nested
\* message carries the bot_id
BotEditEvents == {ev \in Events : ev.hasMsg /\ ev.message.bot_id}

\* C30: in part_000 and v5-simple an edit of a bot's message, the bot's own
\* reply included, is ignored even when its nested text holds a supported URL:
\* the run ends at once, nothing is looked up and nothing is posted
C30_BotEditIgnored ==
    [][(Len(runs') > Len(runs) /\ ver \in {"p000", "v5"}) =>
        \A ev \in BotEditEvents :
            Receive(ev) =>
                /\ LastRun.pc = "done" /\ LastRun.out # "go"
                /\ LastRun.reqs = 0 /\ LastRun.posts = 0]_vars

\* C31: of a user's message with a supported URL and a later message_changed
\* event for that same message (another event_id, the same URL in the nested
\* text or the unfurl's attachment), at most one is answered with a reply that
\* chat.postMessage accepted
C31_MessageAndEditOneReply ==
    \A i, j \in DOMAIN runs :
        (i < j /\ runs[i].eid = UrlMessage.event_id /\ runs[j].eid # UrlMessage.event_id)
        => ~(/\ runs[i].posts = 1 /\ runs[i].sent = "ok"
             /\ runs[j].posts = 1 /\ runs[j].sent = "ok")

\* C32: in part_000 a reply is built from cached data only when that data
\* holds a URL for at least one of the three services: a run that found the
\* lookup's empty result in the cache has issued a request of its own
C32_CacheServesUsableOnly ==
    ver = "p000" =>
        \A i \in DOMAIN runs :
            (runs[i].hit /\ runs[i].reqs = 0) => PresentServices(runs[i].data) # {}

\* C33: in part_000 and slack.js (first version), when the listener has put an
\* event's id into seenEvents and goes on to the lookup, that id is in the
\* set, so that the same event delivered again next is stopped as a duplicate;
\* this holds also for the id whose insertion brings the set above its limit
C33_AddedIdStaysSeen ==
    [][(/\ Len(runs') > Len(runs)
        /\ ver \in {"p000", "slackA"}
        /\ LastRun.out = "go")
       => /\ LastRun.eid \in seenEvents'
          /\ \A ev \in UrlEvents :
                 (/\ ev.event_id = LastRun.eid
                  /\ ~Ignorable(ver, ev)
                  /\ ChannelAllowed(allowed, ev.channel)
                  /\ Candidate(ver, ev) # NoUrl)
                 => Triage(ver, allowed, seenEvents', ev) = "dup"]_vars

\* C34: in part_000 and part_002, while the lookup of one event's run is in
\* flight, the run of an event with another event_id and the same normalized
\* URL issues no lookup request of its own
C34_OneLookupInFlightPerUrl ==
    ver \in {"p000", "p002"} =>
        \A i, j \in DOMAIN runs :
            (/\ i < j
             /\ runs[i].eid # runs[j].eid
             /\ runs[i].pc = "fetch"
             /\ runs[j].out = "go"
             /\ runs[j].url = runs[i].url)
            => runs[j].reqs = 0

====
